---- MODULE Spec2Model ----
(***************************************************************************)
(* Model of the 6502 emulator core of src/main.cpp: struct CPU (registers, *)
(* status flags and the named operations) and struct Machine (memory,      *)
(* addressing-mode resolution and the single-step dispatch).               *)
(*                                                                         *)
(* Four specifications are given.  Spec steps the Machine with             *)
(* execute_instruction only; SpecCPU calls the public CPU operations       *)
(* directly with operands drawn from bounded sets; SpecFlags applies the   *)
(* two flag updates from every status register; SpecRol repeats rol on one *)
(* byte from every byte and Carry.                                         *)
(***************************************************************************)
EXTENDS Integers, Naturals, Sequences, FiniteSets, TLC

VARIABLES memory,   \* Machine::memory, the bytes that differ from Background
          cpu,      \* Machine::cpu, the record of the struct CPU fields
          op,       \* name of the operation called last ("none" at start)
          arg,      \* the argument of that call (operand byte or reference)
          old,      \* memory and cpu as they were when that call started
          dispatch, \* the locals of the last execute_instruction call
          ret,      \* what the last execute_instruction call gave its caller
          calls     \* number of calls made so far

vars == <<memory, cpu, op, arg, old, dispatch, ret, calls>>

machine == <<memory, cpu>>

(***************************************************************************)
(* Bounds of the model.                                                    *)
(***************************************************************************)
MaxSteps == 2   \* execute_instruction calls per behaviour of Spec
MaxRols  == 9   \* rol calls per behaviour of SpecRol
MaxCalls == 1   \* CPU operation calls per behaviour of SpecCPU

(***************************************************************************)
(* Fixed-width integers and the bitwise operators of C++ on them.          *)
(***************************************************************************)
WordSize == 256        \* using Word = uint8_t
LongSize == 65536      \* uint16_t
memory_size == 65536   \* Machine::memory_size = 1 << 16

Byte == 0 .. (WordSize - 1)

RECURSIVE BitAnd(_, _)
BitAnd(a, b) ==
    IF a = 0 \/ b = 0 THEN 0
    ELSE ((a % 2) * (b % 2)) + (2 * BitAnd(a \div 2, b \div 2))

RECURSIVE BitOr(_, _)
BitOr(a, b) ==
    IF a = 0 THEN b
    ELSE IF b = 0 THEN a
    ELSE (IF (a % 2) + (b % 2) > 0 THEN 1 ELSE 0) + (2 * BitOr(a \div 2, b \div 2))

RECURSIVE BitXor(_, _)
BitXor(a, b) ==
    IF a = 0 THEN b
    ELSE IF b = 0 THEN a
    ELSE (((a % 2) + (b % 2)) % 2) + (2 * BitXor(a \div 2, b \div 2))

\* ~flags of a Word, as it acts on the 8 bits that are stored back into SR
BitNot8(w) == (WordSize - 1) - w

\* conversion of an int to Word (uint8_t) and to uint16_t: the value modulo
\* 2^8 or 2^16 (% of a negative number is the non-negative residue)
ToWord(n) == n % WordSize
ToLong(n) == n % LongSize

(***************************************************************************)
(* struct CPU::Flag                                                        *)
(***************************************************************************)
Negative  == 128
Overflow  == 64
Ignored   == 32
Break     == 16
Decimal   == 8
Interrupt == 4
Zero      == 2
Carry     == 1

(***************************************************************************)
(* CPU: the private helpers.  c is the CPU record.                         *)
(***************************************************************************)
clear_flags(c, flags) == [c EXCEPT !.SR = BitAnd(c.SR, BitNot8(flags))]

set_flags(c, flags) == [c EXCEPT !.SR = BitOr(c.SR, flags)]

\* assign_flags that stores the mask instead of merging it into SR
assign_flags_overwrite(c, flags, value) ==
    [c EXCEPT !.SR = IF value THEN flags ELSE 0]

assign_flags(c, flags, value) ==
    LET c1 == [c EXCEPT !.SR = BitAnd(c.SR, BitNot8(flags))]
    IN  [c1 EXCEPT !.SR = BitOr(c1.SR, IF value THEN flags ELSE 0)]

update_zero_flag(c, w) == assign_flags(c, Zero, w = 0)

\* update_negative_flag that tests 1 << 6
update_negative_flag_bit6(c, w) == assign_flags(c, Negative, BitAnd(w, 64) # 0)

update_negative_flag(c, w) == assign_flags(c, Negative, BitAnd(w, 128) # 0)

transfer(c, dst, src) ==
    LET c1 == [c EXCEPT ![dst] = src]
    IN  update_negative_flag(update_zero_flag(c1, c1.AC), c1.AC)

(***************************************************************************)
(* References (Word&): a register of the CPU or a byte of memory.  A       *)
(* machine state st is the record [cpu, memory].                           *)
(***************************************************************************)
Background(a) == ((a * 3) + ((a \div 256) * 5) + 1) % WordSize

MemAt(m, a) == IF a \in DOMAIN m THEN m[a] ELSE Background(a)

RegRef(r) == [kind |-> "reg", reg |-> r, addr |-> 0]
MemRef(a) == [kind |-> "mem", reg |-> "", addr |-> a]

Deref(st, ref) ==
    IF ref.kind = "reg" THEN st.cpu[ref.reg] ELSE MemAt(st.memory, ref.addr)

Assign(st, ref, v) ==
    IF ref.kind = "reg"
    THEN [st EXCEPT !.cpu = [st.cpu EXCEPT ![ref.reg] = v]]
    ELSE [st EXCEPT !.memory =
             [a \in DOMAIN st.memory \cup {ref.addr} |->
                 IF a = ref.addr THEN v ELSE st.memory[a]]]

UpdateZN(st, ref) ==
    LET w == Deref(st, ref)
    IN  [st EXCEPT !.cpu = update_negative_flag(update_zero_flag(st.cpu, w), w)]

decrement(st, ref) ==
    UpdateZN(Assign(st, ref, ToWord(Deref(st, ref) - 1)), ref)

\* increment that updates the flags before it adds
increment_flags_first(st, ref) ==
    Assign(UpdateZN(st, ref), ref, ToWord(Deref(st, ref) + 1))

increment(st, ref) ==
    UpdateZN(Assign(st, ref, ToWord(Deref(st, ref) + 1)), ref)

(***************************************************************************)
(* CPU: the public operations.                                             *)
(***************************************************************************)
nop(c) == c

eor(c, w) ==
    LET c1 == [c EXCEPT !.AC = BitXor(c.AC, w)]
    IN  update_negative_flag(update_zero_flag(c1, c1.AC), c1.AC)

ora(c, w) ==
    LET c1 == [c EXCEPT !.AC = BitOr(c.AC, w)]
    IN  update_negative_flag(update_zero_flag(c1, c1.AC), c1.AC)

\* adc that forgets the carry-in
adc_without_carry(c, w) ==
    LET c1 == [c EXCEPT !.AC = ToWord(c.AC + w)]
    IN  update_negative_flag(update_zero_flag(c1, c1.AC), c1.AC)

adc(c, w) ==
    LET c1 == [c EXCEPT !.AC = ToWord(c.AC + (w + BitAnd(c.SR, Carry)))]
    IN  update_negative_flag(update_zero_flag(c1, c1.AC), c1.AC)

sbc(c, w) ==
    LET c1 == [c EXCEPT !.AC =
                 ToWord(c.AC - (w + (1 - BitAnd(c.SR, Carry))))]
    IN  update_negative_flag(update_zero_flag(c1, c1.AC), c1.AC)

\* rol that forgets to assign the new Carry
rol_keeps_carry(st, ref) ==
    LET w   == Deref(st, ref)
        st1 == Assign(st, ref, ToWord(BitOr(w * 2, BitAnd(st.cpu.SR, Carry))))
    IN  UpdateZN(st1, ref)

\* rol that shifts a zero in instead of the Carry
rol_shift_only(st, ref) ==
    LET w         == Deref(st, ref)
        new_carry == w \div 128
        st1       == Assign(st, ref, ToWord(w * 2))
        st2       == UpdateZN(st1, ref)
    IN  [st2 EXCEPT !.cpu = assign_flags(st2.cpu, Carry, new_carry # 0)]

rol(st, ref) ==
    LET w         == Deref(st, ref)
        new_carry == w \div 128
        st1       == Assign(st, ref, ToWord(BitOr(w * 2, BitAnd(st.cpu.SR, Carry))))
        st2       == UpdateZN(st1, ref)
    IN  [st2 EXCEPT !.cpu = assign_flags(st2.cpu, Carry, new_carry # 0)]

lda(c, w) == transfer(c, "AC", w)
ldx(c, w) == transfer(c, "X", w)
ldy(c, w) == transfer(c, "Y", w)

dex(st) == decrement(st, RegRef("X"))
dey(st) == decrement(st, RegRef("Y"))
inx(st) == increment(st, RegRef("X"))
iny(st) == increment(st, RegRef("Y"))
inc(st, ref) == increment(st, ref)

tax(c) == transfer(c, "X", c.AC)
tay(c) == transfer(c, "Y", c.AC)
txa(c) == transfer(c, "AC", c.X)
tya(c) == transfer(c, "AC", c.Y)
tsx(c) == transfer(c, "X", c.SP)
txs(c) == [c EXCEPT !.SP = c.X]

clc(c) == clear_flags(c, Carry)
cld(c) == clear_flags(c, Decimal)
cli(c) == clear_flags(c, Interrupt)
clv(c) == clear_flags(c, Overflow)

sec(c) == set_flags(c, Carry)
sed(c) == set_flags(c, Decimal)
sei(c) == set_flags(c, Interrupt)

(***************************************************************************)
(* struct Machine                                                          *)
(***************************************************************************)
\* Word read_word(uint16_t address)
read_word(m, n) == MemAt(m, ToLong(n))

\* uint16_t read_long(uint16_t address): memory[address + 1] is indexed with
\* an int, so for address = 0xFFFF the index is 65536, one past the array;
\* oob is the byte such a read produces.
read_long(m, n, oob) ==
    LET address == ToLong(n)
        high    == IF address + 1 < memory_size THEN MemAt(m, address + 1) ELSE oob
    IN  ToLong(BitOr(high * 256, MemAt(m, address)))

\* the switch with one case label too many
Recognized_extra_case(lo_op) == lo_op \in {1, 5, 6, 9, 10, 13, 14}

\* the case labels of the switch in execute_instruction
Recognized(lo_op) == lo_op \in {1, 5, 6, 9, 13, 14}

\* the mode computed without the "- 1"
addressing_mode_no_decrement(opcode) ==
    LET lo_op == BitAnd(opcode, 15)
        hi_op == BitAnd(opcode, 240) \div 16
    IN  ToWord(BitOr(lo_op \div 2, BitAnd(hi_op, 1)))

\* Word addressing_mode = ((lo_op - 1) >> 1) | (hi_op & 0x01)
addressing_mode(opcode) ==
    LET lo_op == BitAnd(opcode, 15)
        hi_op == BitAnd(opcode, 240) \div 16
    IN  ToWord(BitOr((lo_op - 1) \div 2, BitAnd(hi_op, 1)))

\* the argument the selected case passes to read_long, -1 when it reads none
long_operand(m, c, mode) ==
    CASE mode = 0 -> ToLong(read_word(m, c.PC + 1) + c.X)
      [] mode = 1 -> ToLong(read_word(m, c.PC + 1))
      [] mode \in {5, 6, 7} -> ToLong(c.PC + 1)
      [] OTHER -> -1

\* case 3 without the conversion of the sum to Word
effective_address_unmasked(m, c, mode, oob) ==
    CASE mode = 0 -> read_long(m, read_word(m, c.PC + 1) + c.X, oob)
      [] mode = 1 -> ToLong(read_long(m, read_word(m, c.PC + 1), oob) + c.Y)
      [] mode = 2 -> read_word(m, c.PC + 1)
      [] mode = 3 -> ToLong(read_word(m, c.PC + 1) + c.X)
      [] mode = 4 -> ToLong(c.PC + 1)
      [] mode = 5 -> ToLong(read_long(m, c.PC + 1, oob) + c.Y)
      [] mode = 6 -> read_long(m, c.PC + 1, oob)
      [] mode = 7 -> ToLong(read_long(m, c.PC + 1, oob) + c.X)

\* case 4 reading its operand byte as an address, as case 2 does
effective_address_immediate_read(m, c, mode, oob) ==
    CASE mode = 0 -> read_long(m, read_word(m, c.PC + 1) + c.X, oob)
      [] mode = 1 -> ToLong(read_long(m, read_word(m, c.PC + 1), oob) + c.Y)
      [] mode = 2 -> read_word(m, c.PC + 1)
      [] mode = 3 -> ToWord(read_word(m, c.PC + 1) + c.X)
      [] mode = 4 -> read_word(m, c.PC + 1)
      [] mode = 5 -> ToLong(read_long(m, c.PC + 1, oob) + c.Y)
      [] mode = 6 -> read_long(m, c.PC + 1, oob)
      [] mode = 7 -> ToLong(read_long(m, c.PC + 1, oob) + c.X)

\* the switch on addressing_mode: the effective address
effective_address(m, c, mode, oob) ==
    CASE mode = 0 -> read_long(m, read_word(m, c.PC + 1) + c.X, oob)
      [] mode = 1 -> ToLong(read_long(m, read_word(m, c.PC + 1), oob) + c.Y)
      [] mode = 2 -> read_word(m, c.PC + 1)
      [] mode = 3 -> ToWord(read_word(m, c.PC + 1) + c.X)
      [] mode = 4 -> ToLong(c.PC + 1)
      [] mode = 5 -> ToLong(read_long(m, c.PC + 1, oob) + c.Y)
      [] mode = 6 -> read_long(m, c.PC + 1, oob)
      [] mode = 7 -> ToLong(read_long(m, c.PC + 1, oob) + c.X)

\* the width with case 5 given the width of case 4
instruction_width_case5(mode) == IF mode \in {6, 7} THEN 3 ELSE 2

\* the switch on addressing_mode: the encoded width
instruction_width(mode) == IF mode \in {5, 6, 7} THEN 3 ELSE 2

\* the bytes a read one past the end of memory can produce
OutOfBounds(long) == IF long + 1 = memory_size THEN Byte ELSE {0}

NoDispatch ==
    [opcode |-> -1, addressing_mode |-> -1, long |-> -1, address |-> -1,
     width |-> -1, operand |-> -1]

\* normal_dispatch applying ldx where the code applies adc
normal_dispatch_ldx(opcode) ==
    LET mode == addressing_mode(opcode)
        long == long_operand(memory, cpu, mode)
    IN  \E oob \in OutOfBounds(long) :
          LET address == effective_address(memory, cpu, mode, oob)
              width   == instruction_width(mode)
              operand == MemAt(memory, address)
              c1      == ldx(cpu, operand)
          IN  /\ cpu' = [c1 EXCEPT !.PC = ToLong(c1.PC + width)]
              /\ memory' = memory
              /\ dispatch' = [opcode |-> opcode, addressing_mode |-> mode,
                              long |-> long, address |-> address,
                              width |-> width, operand |-> operand]

\* void normal_dispatch(Word opcode)
normal_dispatch(opcode) ==
    LET mode == addressing_mode(opcode)
        long == long_operand(memory, cpu, mode)
    IN  \E oob \in OutOfBounds(long) :
          LET address == effective_address(memory, cpu, mode, oob)
              width   == instruction_width(mode)
              operand == MemAt(memory, address)
              c1      == adc(cpu, operand)
          IN  /\ cpu' = [c1 EXCEPT !.PC = ToLong(c1.PC + width)]
              /\ memory' = memory
              /\ dispatch' = [opcode |-> opcode, addressing_mode |-> mode,
                              long |-> long, address |-> address,
                              width |-> width, operand |-> operand]

\* the opcodes the switch of execute_instruction has no case for
ignored_opcode(opcode) ==
    /\ cpu' = cpu
    /\ memory' = memory
    /\ dispatch' = [NoDispatch EXCEPT !.opcode = opcode]

\* void execute_instruction()
execute_instruction ==
    /\ calls < MaxSteps
    /\ LET opcode == read_word(memory, cpu.PC)
           lo_op  == BitAnd(opcode, 15)
       IN  \/ Recognized(lo_op) /\ normal_dispatch(opcode)
           \/ ~Recognized(lo_op) /\ ignored_opcode(opcode)
    /\ op' = "execute_instruction"
    /\ arg' = 0
    /\ old' = [memory |-> memory, cpu |-> cpu]
    /\ ret' = "void"
    /\ calls' = calls + 1

(***************************************************************************)
(* Spec: a memory image holding one instruction at PC over the background  *)
(* pattern, stepped by execute_instruction.                                *)
(***************************************************************************)
StartPCs == {16, 65534, 65535}

Opcodes ==
    { 1, 17, 5, 21, 6, 22, 9, 25, 13, 29, 14, 30,   \* one per group and parity
      73, 105, 169,                                 \* EOR #, ADC #, LDA #
      0, 234 }                                      \* no case: BRK, NOP

OperandBytes == {0, 128, 255}
HighBytes    == {105, 255}   \* also the opcode the step after a 2-byte one fetches

AccValues    == {80, 255}
IndexXValues == {1, 255}
IndexYValues == {0, 255}
StatusValues == {49, 194}    \* Ignored|Break|Carry, Negative|Overflow|Zero
StackValues  == {255}

Program(pc, o, b1, b2) ==
    [a \in {pc, ToLong(pc + 1), ToLong(pc + 2)} |->
        IF a = pc THEN o ELSE IF a = ToLong(pc + 1) THEN b1 ELSE b2]

Init ==
    /\ \E pc \in StartPCs, o \in Opcodes, b1 \in OperandBytes, b2 \in HighBytes :
          /\ memory = Program(pc, o, b1, b2)
          /\ cpu \in [PC : {pc}, AC : AccValues, X : IndexXValues,
                      Y : IndexYValues, SR : StatusValues, SP : StackValues]
    /\ op = "none"
    /\ arg = 0
    /\ old = [memory |-> memory, cpu |-> cpu]
    /\ dispatch = NoDispatch
    /\ ret = "none"
    /\ calls = 0

Next == execute_instruction

Spec == Init /\ [][Next]_vars

(***************************************************************************)
(* SpecCPU: a caller invokes the public operations of the CPU, one call    *)
(* per step, with operands drawn from Operands and references from Refs.   *)
(***************************************************************************)
CellAddrs == {64}   \* the memory bytes that rol and inc are given a reference to

Operands == {0, 1, 80, 127, 128, 255}
Refs     == {RegRef("AC")} \cup {MemRef(a) : a \in CellAddrs}

CpuAccValues    == {0, 80, 127, 128, 255}
CpuXValues      == {0, 127}
CpuYValues      == {255}
CpuStackValues  == {0, 128}
CpuStatusValues == {0, 49, 206}  \* none; Ignored|Break|Carry; all but those
CellValues      == {128, 255}

\* a call of an operation that touches the CPU only
CallCpu(name, a, c2) ==
    /\ calls < MaxCalls
    /\ cpu' = c2
    /\ memory' = memory
    /\ op' = name
    /\ arg' = a
    /\ old' = [memory |-> memory, cpu |-> cpu]
    /\ dispatch' = NoDispatch
    /\ ret' = "void"
    /\ calls' = calls + 1

\* a call of an operation that is given a reference
CallRef(name, a, st2) ==
    /\ calls < MaxCalls
    /\ cpu' = st2.cpu
    /\ memory' = st2.memory
    /\ op' = name
    /\ arg' = a
    /\ old' = [memory |-> memory, cpu |-> cpu]
    /\ dispatch' = NoDispatch
    /\ ret' = "void"
    /\ calls' = calls + 1

Here == [memory |-> memory, cpu |-> cpu]

call_nop == CallCpu("nop", 0, nop(cpu))
call_eor == \E w \in Operands : CallCpu("eor", w, eor(cpu, w))
call_ora == \E w \in Operands : CallCpu("ora", w, ora(cpu, w))
call_adc == \E w \in Operands : CallCpu("adc", w, adc(cpu, w))
call_sbc == \E w \in Operands : CallCpu("sbc", w, sbc(cpu, w))
call_rol == \E r \in Refs : CallRef("rol", r, rol(Here, r))
call_lda == \E w \in Operands : CallCpu("lda", w, lda(cpu, w))
call_ldx == \E w \in Operands : CallCpu("ldx", w, ldx(cpu, w))
call_ldy == \E w \in Operands : CallCpu("ldy", w, ldy(cpu, w))
call_dex == CallRef("dex", 0, dex(Here))
call_dey == CallRef("dey", 0, dey(Here))
call_inx == CallRef("inx", 0, inx(Here))
call_iny == CallRef("iny", 0, iny(Here))
call_inc == \E r \in Refs : CallRef("inc", r, inc(Here, r))
call_tax == CallCpu("tax", 0, tax(cpu))
call_tay == CallCpu("tay", 0, tay(cpu))
call_txa == CallCpu("txa", 0, txa(cpu))
call_tya == CallCpu("tya", 0, tya(cpu))
call_tsx == CallCpu("tsx", 0, tsx(cpu))
call_txs == CallCpu("txs", 0, txs(cpu))
call_clc == CallCpu("clc", 0, clc(cpu))
call_cld == CallCpu("cld", 0, cld(cpu))
call_cli == CallCpu("cli", 0, cli(cpu))
call_clv == CallCpu("clv", 0, clv(cpu))
call_sec == CallCpu("sec", 0, sec(cpu))
call_sed == CallCpu("sed", 0, sed(cpu))
call_sei == CallCpu("sei", 0, sei(cpu))

InitCPU ==
    /\ \E v \in CellValues : memory = [a \in CellAddrs |-> v]
    /\ cpu \in [PC : {0}, AC : CpuAccValues, X : CpuXValues, Y : CpuYValues,
                SR : CpuStatusValues, SP : CpuStackValues]
    /\ op = "none"
    /\ arg = 0
    /\ old = [memory |-> memory, cpu |-> cpu]
    /\ dispatch = NoDispatch
    /\ ret = "none"
    /\ calls = 0

NextCPU ==
    \/ call_nop \/ call_eor \/ call_ora \/ call_adc \/ call_sbc \/ call_rol
    \/ call_lda \/ call_ldx \/ call_ldy
    \/ call_dex \/ call_dey \/ call_inx \/ call_iny \/ call_inc
    \/ call_tax \/ call_tay \/ call_txa \/ call_tya \/ call_tsx \/ call_txs
    \/ call_clc \/ call_cld \/ call_cli \/ call_clv
    \/ call_sec \/ call_sed \/ call_sei

SpecCPU == InitCPU /\ [][NextCPU]_vars

(***************************************************************************)
(* SpecFlags: the two flag updates of the CPU applied to a byte, from      *)
(* every value of the status register.                                     *)
(***************************************************************************)
call_update_zero_flag ==
    \E w \in Operands : CallCpu("update_zero_flag", w, update_zero_flag(cpu, w))

call_update_negative_flag ==
    \E w \in Operands :
        CallCpu("update_negative_flag", w, update_negative_flag(cpu, w))

InitFlags ==
    /\ \E v \in CellValues : memory = [a \in CellAddrs |-> v]
    /\ cpu \in [PC : {0}, AC : {0}, X : {0}, Y : {0}, SR : Byte, SP : {255}]
    /\ op = "none"
    /\ arg = 0
    /\ old = [memory |-> memory, cpu |-> cpu]
    /\ dispatch = NoDispatch
    /\ ret = "none"
    /\ calls = 0

NextFlags == call_update_zero_flag \/ call_update_negative_flag

SpecFlags == InitFlags /\ [][NextFlags]_vars

(***************************************************************************)
(* SpecRol: rol called again and again on one byte of memory, from every   *)
(* value of the byte and of the Carry.  The byte after it holds the same   *)
(* value at the start and X holds the Carry the behaviour starts with;     *)
(* rol is given no reference to either.                                    *)
(***************************************************************************)
rol_again ==
    /\ calls < MaxRols
    /\ \E a \in CellAddrs :
          LET st2 == rol(Here, MemRef(a))
          IN  /\ cpu' = st2.cpu
              /\ memory' = st2.memory
              /\ arg' = MemRef(a)
    /\ op' = "rol"
    /\ old' = [memory |-> memory, cpu |-> cpu]
    /\ dispatch' = NoDispatch
    /\ ret' = "void"
    /\ calls' = calls + 1

InitRol ==
    /\ \E w \in Byte, c \in {0, 1}, s \in {0, Ignored + Break} :
          /\ memory = [a \in CellAddrs \cup {b + 1 : b \in CellAddrs} |-> w]
          /\ cpu = [PC |-> 0, AC |-> 0, X |-> c, Y |-> 0, SR |-> s + c, SP |-> 255]
    /\ op = "none"
    /\ arg = 0
    /\ old = [memory |-> memory, cpu |-> cpu]
    /\ dispatch = NoDispatch
    /\ ret = "none"
    /\ calls = 0

NextRol == rol_again

SpecRol == InitRol /\ [][NextRol]_vars

(***************************************************************************)
(* Vocabulary of the properties.                                           *)
(***************************************************************************)
LoNibble(o) == o % 16
HiNibble(o) == o \div 16
RecognizedLow == {1, 5, 6, 9, 13, 14}

Bit(v, k)  == (v \div (2 ^ k)) % 2
FlagOf(sr, flag) == IF BitAnd(sr, flag) # 0 THEN 1 ELSE 0

Stepped      == op = "execute_instruction"
SteppedOn(o) == Stepped /\ dispatch.opcode = o
Dispatched   == Stepped /\ LoNibble(dispatch.opcode) \in RecognizedLow
Unimplemented == Stepped /\ LoNibble(dispatch.opcode) \notin RecognizedLow

\* the byte after the opcode, as it was when the step started
ImmediateOperand == MemAt(old.memory, (old.cpu.PC + 1) % 65536)

\* Zero and Negative of the status register describe the byte v
ZeroNegativeOf(sr, v) ==
    /\ FlagOf(sr, Zero) = (IF v = 0 THEN 1 ELSE 0)
    /\ FlagOf(sr, Negative) = Bit(v, 7)

(***************************************************************************)
(* C1: a step applies the instruction its opcode encodes: after a step on  *)
(* 0x49 AC = AC XOR operand, on 0x09 AC = AC OR operand, on 0xA9           *)
(* AC = operand, on 0x69 AC = (AC + operand + Carry) mod 256, the operand  *)
(* being the byte at PC+1.                                                 *)
(***************************************************************************)
C1_OpcodeSelectsInstruction ==
    LET a == old.cpu.AC
        w == ImmediateOperand
        c == FlagOf(old.cpu.SR, Carry)
    IN  /\ SteppedOn(73)  => cpu.AC = BitXor(a, w)
        /\ SteppedOn(9)   => cpu.AC = BitOr(a, w)
        /\ SteppedOn(169) => cpu.AC = w
        /\ SteppedOn(105) => cpu.AC = (a + w + c) % 256

(***************************************************************************)
(* C2: a step on an opcode whose low nibble is not recognized gives the    *)
(* caller an outcome that differs from the outcome of a successful step    *)
(* (which returns void).                                                   *)
(***************************************************************************)
C2_UnimplementedReported == Unimplemented => ret # "void"

(***************************************************************************)
(* C3: while the opcode at PC has an unrecognized low nibble, every step   *)
(* leaves PC, AC, X, Y, SP, SR and memory as they are, so the machine      *)
(* stays in that state however many steps follow.                          *)
(***************************************************************************)
C3_UnimplementedHalts ==
    [][LoNibble(MemAt(memory, cpu.PC)) \notin RecognizedLow
          => cpu' = cpu /\ memory' = memory]_vars

C3_Witness ==
    /\ Unimplemented
    /\ calls = 2
    /\ LoNibble(MemAt(old.memory, old.cpu.PC)) \notin RecognizedLow
    /\ cpu = old.cpu
    /\ memory = old.memory

(***************************************************************************)
(* C4: a step on a recognized opcode sets PC to (PC + width) mod 65536,    *)
(* width being 3 for absolute, absolute-X and absolute-Y and 2 for the     *)
(* other five modes; PC is always in 0..65535 and the width in {2, 3}.     *)
(***************************************************************************)
WidthOf(o) ==
    IF LoNibble(o) \in {13, 14} \/ (LoNibble(o) = 9 /\ HiNibble(o) % 2 = 1)
    THEN 3 ELSE 2

C4_PCAdvancesByWidth ==
    /\ cpu.PC \in 0 .. 65535
    /\ Dispatched =>
          /\ dispatch.width = WidthOf(dispatch.opcode)
          /\ dispatch.width \in {2, 3}
          /\ cpu.PC = (old.cpu.PC + WidthOf(dispatch.opcode)) % 65536

C4_Witness ==
    /\ Dispatched
    /\ old.cpu.PC = 65534
    /\ dispatch.width = 3
    /\ cpu.PC = 1

(***************************************************************************)
(* C5: the addressing mode of a recognized opcode is given by its low      *)
(* nibble and the parity of its high nibble: 0x1 -> indexed-indirect (0)   *)
(* or indirect-indexed (1); 0x5, 0x6 -> zero-page (2) or zero-page-X (3);  *)
(* 0x9 -> immediate (4) or absolute-Y (5); 0xD, 0xE -> absolute (6) or     *)
(* absolute-X (7); no other mode is decoded.                               *)
(***************************************************************************)
ModeOf(o) ==
    LET odd == HiNibble(o) % 2
    IN  CASE LoNibble(o) = 1 -> 0 + odd
          [] LoNibble(o) \in {5, 6} -> 2 + odd
          [] LoNibble(o) = 9 -> 4 + odd
          [] LoNibble(o) \in {13, 14} -> 6 + odd

C5_ModeByNibbleAndParity ==
    Dispatched =>
        /\ dispatch.addressing_mode = ModeOf(dispatch.opcode)
        /\ dispatch.addressing_mode \in 0 .. 7

C5_Witness ==
    /\ SteppedOn(22)
    /\ dispatch.addressing_mode = 3

(***************************************************************************)
(* C6: adc and sbc set Carry and Overflow from the full result: after      *)
(* adc(w) Carry is bit 8 of AC + w + Carry and Overflow is 1 iff AC and w  *)
(* have the same sign and the result's sign differs; after sbc(w) Carry is *)
(* 1 iff no borrow occurred and Overflow is 1 iff AC and w differ in sign  *)
(* and the result's sign differs from AC's.                                *)
(***************************************************************************)
C6_CarryAndOverflow ==
    LET a == old.cpu.AC
        c == FlagOf(old.cpu.SR, Carry)
    IN  /\ op = "adc" =>
              /\ FlagOf(cpu.SR, Carry) = (a + arg + c) \div 256
              /\ FlagOf(cpu.SR, Overflow) =
                    (IF Bit(a, 7) = Bit(arg, 7) /\ Bit(cpu.AC, 7) # Bit(a, 7)
                     THEN 1 ELSE 0)
        /\ op = "sbc" =>
              /\ FlagOf(cpu.SR, Carry) = (IF a - arg - (1 - c) >= 0 THEN 1 ELSE 0)
              /\ FlagOf(cpu.SR, Overflow) =
                    (IF Bit(a, 7) # Bit(arg, 7) /\ Bit(cpu.AC, 7) # Bit(a, 7)
                     THEN 1 ELSE 0)

(***************************************************************************)
(* C7: adc(w) leaves AC = (AC + w + Carry) mod 256 and sbc(w) leaves       *)
(* AC = (AC - w - (1 - Carry)) mod 256; in both cases Zero is 1 iff the    *)
(* new AC is 0 and Negative is bit 7 of the new AC.                        *)
(***************************************************************************)
C7_AdcSbcResult ==
    LET a == old.cpu.AC
        c == FlagOf(old.cpu.SR, Carry)
    IN  /\ op = "adc" =>
              /\ cpu.AC = (a + arg + c) % 256
              /\ ZeroNegativeOf(cpu.SR, cpu.AC)
        /\ op = "sbc" =>
              /\ cpu.AC = (a - arg - (1 - c)) % 256
              /\ ZeroNegativeOf(cpu.SR, cpu.AC)

C7_Witness ==
    /\ op = "adc"
    /\ FlagOf(old.cpu.SR, Carry) = 1
    /\ old.cpu.AC + arg + 1 > 255
    /\ cpu.AC = old.cpu.AC + arg + 1 - 256

(***************************************************************************)
(* C8: after lda, ldx or ldy of v the named register is v, Zero is 1 iff   *)
(* v = 0 and Negative is bit 7 of v, whatever the Accumulator held.        *)
(***************************************************************************)
C8_LoadSetsFlagsFromValue ==
    /\ op = "lda" => cpu.AC = arg /\ ZeroNegativeOf(cpu.SR, arg)
    /\ op = "ldx" => cpu.X = arg /\ ZeroNegativeOf(cpu.SR, arg)
    /\ op = "ldy" => cpu.Y = arg /\ ZeroNegativeOf(cpu.SR, arg)

(***************************************************************************)
(* C9: after tax, tay, txa, tya or tsx the destination equals the source   *)
(* and Zero/Negative describe the destination's new value; txs sets SP to  *)
(* X.                                                                      *)
(***************************************************************************)
C9_TransferSetsFlagsFromDestination ==
    /\ op = "tax" => cpu.X = old.cpu.AC /\ ZeroNegativeOf(cpu.SR, cpu.X)
    /\ op = "tay" => cpu.Y = old.cpu.AC /\ ZeroNegativeOf(cpu.SR, cpu.Y)
    /\ op = "txa" => cpu.AC = old.cpu.X /\ ZeroNegativeOf(cpu.SR, cpu.AC)
    /\ op = "tya" => cpu.AC = old.cpu.Y /\ ZeroNegativeOf(cpu.SR, cpu.AC)
    /\ op = "tsx" => cpu.X = old.cpu.SP /\ ZeroNegativeOf(cpu.SR, cpu.X)
    /\ op = "txs" => cpu.SP = old.cpu.X

(***************************************************************************)
(* C10: in indexed-indirect(X) mode the pointer is read at                 *)
(* (memory[PC+1] + X) mod 256, a location of page zero, and the effective  *)
(* address is the little-endian word at that location.                     *)
(***************************************************************************)
C10_IndexedIndirectInPageZero ==
    (Dispatched /\ LoNibble(dispatch.opcode) = 1 /\ HiNibble(dispatch.opcode) % 2 = 0) =>
        LET p == (ImmediateOperand + old.cpu.X) % 256
        IN  /\ dispatch.long = p
            /\ dispatch.long < 256
            /\ dispatch.address = MemAt(old.memory, p) + 256 * MemAt(old.memory, p + 1)

(***************************************************************************)
(* Vocabulary of the word reads.                                           *)
(***************************************************************************)
\* the little-endian word at address a of memory m, with the high byte taken
\* at (a + 1) mod 65536
WordAt(m, a) == MemAt(m, a) + 256 * MemAt(m, (a + 1) % 65536)

\* the index register the decoded mode adds to the word it reads
IndexOf(o) ==
    IF LoNibble(o) = 1 /\ HiNibble(o) % 2 = 1 THEN old.cpu.Y
    ELSE IF LoNibble(o) = 9 /\ HiNibble(o) % 2 = 1 THEN old.cpu.Y
    ELSE IF LoNibble(o) \in {13, 14} /\ HiNibble(o) % 2 = 1 THEN old.cpu.X
    ELSE 0

\* the last step read a word (every mode but zero-page, zero-page-X, immediate)
ReadWord == Dispatched /\ dispatch.long # -1

(***************************************************************************)
(* C11: every memory access of a step uses an index in 0..65535: a word    *)
(* read at address a takes its low byte at a and its high byte at          *)
(* (a + 1) mod 65536, so a word read at 0xFFFF takes its high byte from    *)
(* address 0 and never indexes past the end of memory.                     *)
(***************************************************************************)
C11_WordReadStaysInMemory ==
    /\ Stepped => old.cpu.PC \in 0 .. 65535
    /\ Dispatched => dispatch.address \in 0 .. 65535
    /\ ReadWord =>
          /\ dispatch.long \in 0 .. 65535
          /\ dispatch.long + 1 \in 0 .. 65535
          /\ dispatch.address =
                (WordAt(old.memory, dispatch.long) + IndexOf(dispatch.opcode)) % 65536

(***************************************************************************)
(* C12: in zero-page-indexed-X mode the effective address is               *)
(* (memory[PC+1] + X) mod 256, hence never 0x0100 or above.                *)
(***************************************************************************)
ZeroPageX(o) == LoNibble(o) \in {5, 6} /\ HiNibble(o) % 2 = 1

C12_ZeroPageXStaysInPageZero ==
    (Dispatched /\ ZeroPageX(dispatch.opcode)) =>
        /\ dispatch.address = (ImmediateOperand + old.cpu.X) % 256
        /\ dispatch.address < 256
        /\ dispatch.operand = MemAt(old.memory, (ImmediateOperand + old.cpu.X) % 256)

C12_Witness ==
    /\ SteppedOn(21)
    /\ ImmediateOperand + old.cpu.X > 255
    /\ dispatch.address = ImmediateOperand + old.cpu.X - 256

(***************************************************************************)
(* C13: in absolute-X and absolute-Y modes the effective address is        *)
(* (word at PC+1 + index) mod 65536, and in indirect-indexed(Y) mode it is *)
(* (word at the zero-page pointer memory[PC+1] + Y) mod 65536; the words   *)
(* are little-endian and the 16-bit add wraps past 0xFFFF to 0.            *)
(***************************************************************************)
C13_IndexedAddWraps ==
    LET o == dispatch.opcode
        next == (old.cpu.PC + 1) % 65536
    IN  /\ (Dispatched /\ LoNibble(o) \in {13, 14} /\ HiNibble(o) % 2 = 1) =>
              dispatch.address = (WordAt(old.memory, next) + old.cpu.X) % 65536
        /\ (Dispatched /\ LoNibble(o) = 9 /\ HiNibble(o) % 2 = 1) =>
              dispatch.address = (WordAt(old.memory, next) + old.cpu.Y) % 65536
        /\ (Dispatched /\ LoNibble(o) = 1 /\ HiNibble(o) % 2 = 1) =>
              dispatch.address =
                 (WordAt(old.memory, MemAt(old.memory, next)) + old.cpu.Y) % 65536

(***************************************************************************)
(* C14: in immediate mode the effective address is (PC + 1) mod 65536      *)
(* whatever that byte holds, and the operand the instruction uses is the   *)
(* byte stored there.                                                      *)
(***************************************************************************)
Immediate(o) == LoNibble(o) = 9 /\ HiNibble(o) % 2 = 0

C14_ImmediateIsNextByte ==
    (Dispatched /\ Immediate(dispatch.opcode)) =>
        /\ dispatch.address = (old.cpu.PC + 1) % 65536
        /\ dispatch.operand = ImmediateOperand
        /\ cpu.AC = (old.cpu.AC + ImmediateOperand + FlagOf(old.cpu.SR, Carry)) % 256

C14_Witness ==
    /\ SteppedOn(9)
    /\ old.cpu.PC = 65535
    /\ dispatch.address = 0
    /\ ImmediateOperand = 128
    /\ dispatch.operand = 128

(***************************************************************************)
(* Vocabulary of the CPU calls.                                            *)
(***************************************************************************)
Now == [memory |-> memory, cpu |-> cpu]

\* the bits of SR that differ between before and after the last call
ChangedFlags == BitXor(cpu.SR, old.cpu.SR)

\* the last call changed no bit of SR outside mask
ChangesAtMost(mask) == BitAnd(ChangedFlags, 255 - mask) = 0

(***************************************************************************)
(* C15: rol leaves the operand location holding ((w * 2) mod 256) + Carry, *)
(* sets Carry to bit 7 of the old w and Zero/Negative from the new operand *)
(* value.                                                                  *)
(***************************************************************************)
C15_RolThroughCarry ==
    op = "rol" =>
        LET w == Deref(old, arg)
            c == FlagOf(old.cpu.SR, Carry)
        IN  /\ Deref(Now, arg) = ((w * 2) % 256) + c
            /\ FlagOf(cpu.SR, Carry) = Bit(w, 7)
            /\ ZeroNegativeOf(cpu.SR, Deref(Now, arg))

C15_Witness ==
    /\ op = "rol"
    /\ arg.kind = "mem"
    /\ Deref(old, arg) = 128
    /\ FlagOf(old.cpu.SR, Carry) = 0
    /\ Deref(Now, arg) = 0
    /\ FlagOf(cpu.SR, Carry) = 1
    /\ FlagOf(cpu.SR, Zero) = 1

(***************************************************************************)
(* C16: no operation changes a status bit outside its documented set: nop  *)
(* and txs none; eor, ora, the loads, the transfers and inc/dec at most    *)
(* Zero and Negative; rol at most Zero, Negative, Carry; adc and sbc at    *)
(* most Zero, Negative, Carry, Overflow; clc, cld, cli, clv, sec, sed, sei *)
(* leave their bit cleared (set) and every other bit unchanged.  So the    *)
(* Ignored and Break bits are never changed by a call.                     *)
(***************************************************************************)
C16_FlagsOutsideSetUnchanged ==
    /\ op \in {"nop", "txs"} => ChangesAtMost(0)
    /\ op \in {"eor", "ora", "lda", "ldx", "ldy", "tax", "tay", "txa", "tya",
               "tsx", "inx", "iny", "inc", "dex", "dey"} => ChangesAtMost(128 + 2)
    /\ op = "rol" => ChangesAtMost(128 + 2 + 1)
    /\ op \in {"adc", "sbc"} => ChangesAtMost(128 + 64 + 2 + 1)
    /\ op = "clc" => ChangesAtMost(1) /\ FlagOf(cpu.SR, 1) = 0
    /\ op = "cld" => ChangesAtMost(8) /\ FlagOf(cpu.SR, 8) = 0
    /\ op = "cli" => ChangesAtMost(4) /\ FlagOf(cpu.SR, 4) = 0
    /\ op = "clv" => ChangesAtMost(64) /\ FlagOf(cpu.SR, 64) = 0
    /\ op = "sec" => ChangesAtMost(1) /\ FlagOf(cpu.SR, 1) = 1
    /\ op = "sed" => ChangesAtMost(8) /\ FlagOf(cpu.SR, 8) = 1
    /\ op = "sei" => ChangesAtMost(4) /\ FlagOf(cpu.SR, 4) = 1
    /\ op # "none" => BitAnd(cpu.SR, 32 + 16) = BitAnd(old.cpu.SR, 32 + 16)

C16_Witness ==
    /\ op = "eor"
    /\ BitAnd(old.cpu.SR, 32 + 16) = 32 + 16
    /\ FlagOf(old.cpu.SR, Negative) = 0
    /\ FlagOf(cpu.SR, Negative) = 1
    /\ BitAnd(cpu.SR, 32 + 16) = 32 + 16
    /\ FlagOf(cpu.SR, Carry) = FlagOf(old.cpu.SR, Carry)

(***************************************************************************)
(* C17: inx, iny and inc leave their target equal to (r + 1) mod 256, dex  *)
(* and dey equal to (r - 1) mod 256, with Zero = 1 iff the new value is 0  *)
(* and Negative = bit 7 of the new value.                                  *)
(***************************************************************************)
C17_IncrementDecrementWrap ==
    /\ op = "inx" => cpu.X = (old.cpu.X + 1) % 256 /\ ZeroNegativeOf(cpu.SR, cpu.X)
    /\ op = "iny" => cpu.Y = (old.cpu.Y + 1) % 256 /\ ZeroNegativeOf(cpu.SR, cpu.Y)
    /\ op = "dex" => cpu.X = (old.cpu.X + 255) % 256 /\ ZeroNegativeOf(cpu.SR, cpu.X)
    /\ op = "dey" => cpu.Y = (old.cpu.Y + 255) % 256 /\ ZeroNegativeOf(cpu.SR, cpu.Y)
    /\ op = "inc" =>
          /\ Deref(Now, arg) = (Deref(old, arg) + 1) % 256
          /\ ZeroNegativeOf(cpu.SR, Deref(Now, arg))

C17_Witness ==
    /\ op = "iny"
    /\ old.cpu.Y = 255
    /\ cpu.Y = 0
    /\ FlagOf(cpu.SR, Zero) = 1
    /\ FlagOf(cpu.SR, Negative) = 0

(***************************************************************************)
(* C18: update_zero_flag(v) leaves Zero = 1 iff v = 0 and                  *)
(* update_negative_flag(v) leaves Negative = 1 iff bit 7 of v is 1; each   *)
(* changes no other bit of SR, and applying it again with the same v       *)
(* changes nothing.                                                        *)
(***************************************************************************)
C18_FlagUpdates ==
    /\ op = "update_zero_flag" =>
          /\ FlagOf(cpu.SR, Zero) = (IF arg = 0 THEN 1 ELSE 0)
          /\ ChangesAtMost(2)
          /\ update_zero_flag(cpu, arg).SR = cpu.SR
    /\ op = "update_negative_flag" =>
          /\ FlagOf(cpu.SR, Negative) = Bit(arg, 7)
          /\ ChangesAtMost(128)
          /\ update_negative_flag(cpu, arg).SR = cpu.SR

C18_Witness ==
    /\ op = "update_negative_flag"
    /\ arg = 128
    /\ old.cpu.SR = 127
    /\ cpu.SR = 255

C20_RolNineTimes ==
    \A a \in CellAddrs :
        LET w0 == MemAt(memory, a + 1)   \* the byte the behaviour started with
            c0 == cpu.X                  \* the Carry it started with
            w  == MemAt(memory, a)
            c  == FlagOf(cpu.SR, Carry)
        IN  /\ calls = 9 => w = w0 /\ c = c0
            /\ (calls \in 1 .. 8 /\ w0 = 1 /\ c0 = 0) => ~(w = w0 /\ c = c0)

C20_Witness ==
    /\ op = "rol"
    /\ calls = 9
    /\ cpu.X = 0
    /\ MemAt(memory, arg.addr + 1) = 1
    /\ MemAt(old.memory, arg.addr) = 0
    /\ FlagOf(old.cpu.SR, Carry) = 1
    /\ MemAt(memory, arg.addr) = 1
    /\ FlagOf(cpu.SR, Carry) = 0

====
